---- MODULE Spec2Model ----
(***************************************************************************)
(* DermaDetect backend: the classification pipeline of routes/predict.js   *)
(* (the async handler and the promise handler that the file holds) and the *)
(* advice pipeline of routes/llm.js (health cache, provider selection).    *)
(*                                                                         *)
(* Strings are sequences of one-character strings.  Confidences are        *)
(* fixed-point numbers in units of 1/10000 (0.15 is 1500, 1 is 10000) with *)
(* a separate NaN flag, so that parseFloat, the division by 100 and the    *)
(* comparisons of the code can be computed exactly.  Time is in            *)
(* milliseconds.                                                           *)
(***************************************************************************)
EXTENDS Integers, Sequences, FiniteSets, TLC

VARIABLES
    \* ---- label check in isolation (SpecLabel)
    variant,        \* the label handed to isValidDisease
    origin,         \* the whitelist entry the variant was derived from
    edits,          \* number of edits applied to the entry
    verdict,        \* "unchecked" | "accepted" | "rejected"
    \* ---- POST / of routes/predict.js (SpecPredict)
    ppc,            \* position of the handler
    preq,           \* the request: handler version, file, form fields, env
    mlResult,       \* what axios.post to the ML backend settled with
    pending,        \* the Prediction document under construction / in save
    saved,          \* Prediction documents written to the database
    presp,          \* the response sent to the caller
    \* ---- routes/llm.js (SpecAdvice)
    now,            \* Date.now(), ms
    ollamaAvailable,
    lastHealthCheck,
    cacheWriter,    \* which probe last wrote ollamaAvailable, which lastHealthCheck
    probes,         \* in-flight checkOllamaHealth calls
    areq,           \* advice / chat requests in flight
    lastProbeAt,    \* when the latest GET /api/tags was sent, ms
    ollamaUp,       \* environment: the state of the Ollama daemon
    cfg,            \* USE_OPENAI, OPENAI_API_KEY presence
    \* ---- POST /api/ask-llama of server.js and POST /advice of the hosted
    \*      TinyLlama variant of routes/llm.js (SpecHosted)
    hpc,            \* position of the handler
    hreq,           \* the request: route, body, HF_TOKEN / LLM_URL presence
    hresult,        \* what axios.post to the hosted model settled with
    hresp,          \* the response sent to the caller
    \* ---- the prompt builders (SpecPrompt)
    condition,      \* the disease name handed to the builder
    base,           \* the name the condition was derived from
    caseEdits,      \* number of characters upper-cased
    prompt          \* the prompt built, a sequence of lines

labelVars   == <<variant, origin, edits, verdict>>
predictVars == <<ppc, preq, mlResult, pending, saved, presp>>
adviceVars  == <<now, ollamaAvailable, lastHealthCheck, cacheWriter, probes, areq,
                 lastProbeAt, ollamaUp, cfg>>
hostedVars  == <<hpc, hreq, hresult, hresp>>
promptVars  == <<condition, base, caseEdits, prompt>>
vars        == <<labelVars, predictVars, adviceVars, hostedVars, promptVars>>

----------------------------------------------------------------------------
(* Strings                                                                 *)

UpperChars == <<"A","B","C","D","E","F","G","H","I","J","K","L","M",
                "N","O","P","Q","R","S","T","U","V","W","X","Y","Z">>
LowerChars == <<"a","b","c","d","e","f","g","h","i","j","k","l","m",
                "n","o","p","q","r","s","t","u","v","w","x","y","z">>
DigitChars == {"0","1","2","3","4","5","6","7","8","9"}
WhiteChars == {" ", "\t", "\n"}
Range(f) == { f[i] : i \in DOMAIN f }

\* String.prototype.toLowerCase on one character
ToLowerChar(c) ==
    IF \E i \in DOMAIN UpperChars : UpperChars[i] = c
    THEN LowerChars[CHOOSE i \in DOMAIN UpperChars : UpperChars[i] = c]
    ELSE c

ToUpperChar(c) ==
    IF \E i \in DOMAIN LowerChars : LowerChars[i] = c
    THEN UpperChars[CHOOSE i \in DOMAIN LowerChars : LowerChars[i] = c]
    ELSE c

ToLowerCase(s) == [i \in DOMAIN s |-> ToLowerChar(s[i])]

\* String.prototype.trim
RECURSIVE TrimStart(_)
TrimStart(s) ==
    IF s # <<>> /\ Head(s) \in WhiteChars THEN TrimStart(Tail(s)) ELSE s

RECURSIVE TrimEnd(_)
TrimEnd(s) ==
    IF s # <<>> /\ s[Len(s)] \in WhiteChars
    THEN TrimEnd(SubSeq(s, 1, Len(s) - 1)) ELSE s

Trim(s) == TrimEnd(TrimStart(s))

\* .replace(/[^a-z0-9]/g, '')
IsAlnumLower(c) == c \in Range(LowerChars) \cup DigitChars

StripNonAlnum(s) == SelectSeq(s, IsAlnumLower)

\* String.prototype.includes
Includes(s, t) ==
    \E i \in 0..(Len(s) - Len(t)) : SubSeq(s, i + 1, i + Len(t)) = t

----------------------------------------------------------------------------
(* routes/predict.js: configuration and helpers                            *)

CONFIDENCE_THRESHOLD == 1500         \* 0.15
SEVERE_FROM   == 7000                \* 0.7
MODERATE_FROM == 4000                \* 0.4
ONE           == 10000               \* 1.0

VALID_DISEASES ==
    << <<"a","c","n","e">>,
       <<"h","y","p","e","r","p","i","g","m","e","n","t","a","t","i","o","n">>,
       <<"v","i","t","i","l","i","g","o">>,
       <<"s","j","s">>,
       <<"m","e","l","a","n","o","m","a">>,
       <<"k","e","r","a","t","o","s","i","s">>,
       <<"p","s","o","r","i","a","s","i","s">>,
       <<"r","i","n","g","w","o","r","m">> >>

\* normalizeDiseaseName without the toLowerCase step
NormalizeNoLower(disease) == StripNonAlnum(Trim(disease))

normalizeDiseaseName(disease) == StripNonAlnum(ToLowerCase(Trim(disease)))

\* isValidDisease with the arguments of includes swapped
isValidDiseaseReversed(disease) ==
    \E k \in DOMAIN VALID_DISEASES :
        \/ normalizeDiseaseName(VALID_DISEASES[k]) = normalizeDiseaseName(disease)
        \/ Includes(normalizeDiseaseName(VALID_DISEASES[k]),
                    normalizeDiseaseName(disease))

isValidDisease(disease) ==
    LET normalized == normalizeDiseaseName(disease)
    IN  \E k \in DOMAIN VALID_DISEASES :
            \/ normalizeDiseaseName(VALID_DISEASES[k]) = normalized
            \/ Includes(normalized, normalizeDiseaseName(VALID_DISEASES[k]))

----------------------------------------------------------------------------
(* SpecLabel: isValidDisease applied to variants of the whitelist entries  *)

MaxEdits == 2

UppercaseAt(s, i) == [s EXCEPT ![i] = ToUpperChar(s[i])]

\* the punctuation and whitespace a variant may carry
InsertChars == {"-", ".", " "}

InsertAt(s, i, c) == SubSeq(s, 1, i) \o <<c>> \o SubSeq(s, i + 1, Len(s))

LabelInit ==
    /\ origin \in DOMAIN VALID_DISEASES
    /\ variant = VALID_DISEASES[origin]
    /\ edits = 0
    /\ verdict = "unchecked"

\* a casing variant: one more character in upper case
EditCase ==
    /\ edits < MaxEdits
    /\ \E i \in DOMAIN variant :
          /\ variant[i] \in Range(LowerChars)
          /\ variant' = UppercaseAt(variant, i)
    /\ edits' = edits + 1
    /\ verdict' = "unchecked"
    /\ UNCHANGED <<origin, predictVars, adviceVars, hostedVars,
                   promptVars>>

\* a punctuation or whitespace variant: one more character inserted
EditInsert ==
    /\ edits < MaxEdits
    /\ \E i \in 0..Len(variant), c \in InsertChars :
          variant' = InsertAt(variant, i, c)
    /\ edits' = edits + 1
    /\ verdict' = "unchecked"
    /\ UNCHANGED <<origin, predictVars, adviceVars, hostedVars,
                   promptVars>>

CheckLabel ==
    /\ verdict = "unchecked"
    /\ verdict' = IF isValidDisease(variant) THEN "accepted" ELSE "rejected"
    /\ UNCHANGED <<variant, origin, edits, predictVars, adviceVars, hostedVars,
                   promptVars>>

LabelNext == EditCase \/ EditInsert \/ CheckLabel

----------------------------------------------------------------------------
(* Confidence values: parseFloat, comparisons, rescaling                   *)

Num(v) == [nan |-> FALSE, v |-> v]
NaN    == [nan |-> TRUE,  v |-> 0]

\* comparisons of JavaScript numbers: every comparison with NaN is false
Lt(a, limit) == ~a.nan /\ a.v < limit
Ge(a, limit) == ~a.nan /\ a.v >= limit
Gt(a, limit) == ~a.nan /\ a.v > limit

\* the confidence property of the backend payload:
\*   "absent" (undefined / null), "num" (a JSON number), "str" (a string that
\*   starts with a number, such as "0.5" or "87%"), "bad" (any other string,
\*   or an object)
AbsentConf  == [t |-> "absent", v |-> 0]
NumConf(v)  == [t |-> "num", v |-> v]
StrConf(v)  == [t |-> "str", v |-> v]
BadConf     == [t |-> "bad", v |-> 0]

\* parseFloat(response.data.confidence || 0)
ParseConfidence(raw) ==
    IF raw.t = "absent" \/ (raw.t = "num" /\ raw.v = 0) THEN Num(0)
    ELSE IF raw.t = "bad" THEN NaN
    ELSE Num(raw.v)

\* if (confidence > 1) confidence = confidence / 100   (promise handlers
\* only); the division is exact on the inputs of ConfidenceInputs
Rescale(version, c) ==
    IF version # "async" /\ Gt(c, ONE) THEN Num(c.v \div 100) ELSE c

\* the threshold test with <= in place of <
BelowThresholdInclusive(c) == ~c.nan /\ c.v <= CONFIDENCE_THRESHOLD

\* confidence < CONFIDENCE_THRESHOLD
BelowThreshold(c) == Lt(c, CONFIDENCE_THRESHOLD)

\* determineSeverity with > in place of >=
determineSeverityStrict(c) ==
    IF Gt(c, SEVERE_FROM) THEN "severe"
    ELSE IF Gt(c, MODERATE_FROM) THEN "moderate"
    ELSE "mild"

determineSeverity(c) ==
    IF Ge(c, SEVERE_FROM) THEN "severe"
    ELSE IF Ge(c, MODERATE_FROM) THEN "moderate"
    ELSE "mild"

----------------------------------------------------------------------------
(* routes/predict.js: the backend payload                                  *)

\* a label property that is missing, and one that holds a non-string
\* (a class index); the empty string is <<>>
Absent    == <<"<absent>">>
NonString == <<"<number>">>

\* JavaScript truthiness of a label property
Truthy(label) == label # Absent /\ label # <<>>

\* labels the backend may report
BackendLabels ==
    { <<"a","c","n","e">>,
      <<"A","c","n","e">>,
      <<" ","M","e","l","a","n","o","m","a","\n">>,
      <<"A","c","n","e"," ","V","u","l","g","a","r","i","s">>,
      <<"r","i","n","g","-","w","o","r","m">>,
      <<"e","c","z","e","m","a">>,
      <<"a","c","n">>,
      <<" "," ">> }

ConfidenceInputs ==
    { AbsentConf, BadConf, StrConf(5000), StrConf(870000) }
    \cup { NumConf(v) : v \in { 0, 500, 1400, 1500, 3900, 4000, 6900,
                                7000, 9500, 10000, 15000, 100000, 150000,
                                870000, 1000000, 2500000 } }

Payloads ==
    [ predicted_class : BackendLabels \cup {Absent, <<>>},
      prediction      : BackendLabels \cup {Absent, NonString},
      disease         : {Absent, <<"s","j","s">>},
      confidence      : ConfidenceInputs ]

NoPayload ==
    [ predicted_class |-> Absent, prediction |-> Absent, disease |-> Absent,
      confidence |-> AbsentConf ]

\* response.data.predicted_class || response.data.prediction ||
\* response.data.disease          (the promise handler reads prediction first)
Or(a, b) == IF Truthy(a) THEN a ELSE b

ExtractLabel(version, data) ==
    IF version = "async"
    THEN Or(Or(data.predicted_class, data.prediction), data.disease)
    ELSE Or(Or(data.prediction, data.predicted_class), data.disease)

\* the confidence the handler compares and returns
ExtractConfidence(version, data) ==
    Rescale(version, ParseConfidence(data.confidence))

\* disease = disease.trim()
\* the label taken over without the trim
TrimLabelNoTrim(label) == label

TrimLabel(label) == Trim(label)

----------------------------------------------------------------------------
(* routes/predict.js: responses                                            *)

NoResponse ==
    [ status |-> 0, success |-> FALSE, message |-> "",
      prediction |-> Absent, predictedDisease |-> Absent,
      detectedClass |-> Absent, confidence |-> NaN, hasConfidence |-> FALSE,
      severity |-> "", belowThreshold |-> FALSE, invalidClass |-> FALSE,
      predictionId |-> 0 ]

Failure(status, message) ==
    [NoResponse EXCEPT !.status = status, !.message = message]

BelowThresholdResponse(disease, confidence) ==
    [NoResponse EXCEPT !.status = 200, !.message = "confidence too low",
                       !.confidence = confidence, !.hasConfidence = TRUE,
                       !.predictedDisease = disease, !.belowThreshold = TRUE]

InvalidClassResponse(disease, confidence) ==
    [NoResponse EXCEPT !.status = 200, !.message = "not in trained database",
                       !.confidence = confidence, !.hasConfidence = TRUE,
                       !.detectedClass = disease, !.invalidClass = TRUE]

SuccessResponse(disease, confidence, severity, id) ==
    [NoResponse EXCEPT !.status = 200, !.success = TRUE,
                       !.prediction = disease,
                       !.confidence = confidence, !.hasConfidence = TRUE,
                       !.severity = severity, !.predictionId = id]

\* the demo answer of the async handler when ML_MODEL_URL is not set
MockResponse ==
    [NoResponse EXCEPT !.status = 200, !.success = TRUE,
                       !.message = "demo mode",
                       !.prediction = <<"M","e","l","a","n","o","m","a">>,
                       !.confidence = Num(8700), !.hasConfidence = TRUE,
                       !.severity = "severe"]

----------------------------------------------------------------------------
(* routes/predict.js: what the POST to the ML backend settles with         *)

HttpStatuses  == {200, 400, 404, 500}
NetworkErrors == {"ECONNREFUSED", "ETIMEDOUT", "ECONNABORTED"}

\* what the backend does with the request: an HTTP answer or no answer
BackendOutcomes ==
    { [http |-> TRUE, status |-> 200, code |-> "", data |-> d] : d \in Payloads }
    \cup { [http |-> TRUE, status |-> st, code |-> "", data |-> NoPayload] :
              st \in HttpStatuses \ {200} }
    \cup { [http |-> FALSE, status |-> 0, code |-> c, data |-> NoPayload] :
              c \in NetworkErrors }

NoResult ==
    [ kind |-> "none", status |-> 0, code |-> "", hasResponse |-> FALSE,
      data |-> NoPayload ]

\* axios: the promise resolves when validateStatus accepts the status,
\* otherwise it rejects with error.response set; a network error rejects
\* with error.code set and no error.response
Settle(o, accepts) ==
    IF o.http /\ accepts
    THEN [ kind |-> "resolved", status |-> o.status, code |-> "",
           hasResponse |-> TRUE, data |-> o.data ]
    ELSE IF o.http
    THEN [ kind |-> "rejected", status |-> o.status, code |-> "ERR_BAD_RESPONSE",
           hasResponse |-> TRUE, data |-> o.data ]
    ELSE [ kind |-> "rejected", status |-> 0, code |-> o.code,
           hasResponse |-> FALSE, data |-> o.data ]

\* the default validateStatus: 2xx
DefaultValidateStatus(status) == status >= 200 /\ status < 300

\* validateStatus: function(status) { return status < 500; }
validateStatus(status) == status < 500

----------------------------------------------------------------------------
(* routes/predict.js: router.post('/'), async handler (lines 90-308)       *)

Versions      == {"async", "promise", "detached"}
SeverityHints == {"", "mild", "high"}

\* authenticated: req.user is set and req.user._id is not 'guest'
NoRequest ==
    [ version |-> "none", hasFile |-> FALSE, mlUrlSet |-> FALSE,
      severity |-> "", authenticated |-> FALSE ]

NoDoc == [ disease |-> Absent, confidence |-> NaN, severity |-> "" ]

PredictInit ==
    /\ ppc = "idle"
    /\ preq = NoRequest
    /\ mlResult = NoResult
    /\ pending = NoDoc
    /\ saved = <<>>
    /\ presp = NoResponse

Respond(r) ==
    /\ presp' = r
    /\ ppc' = "done"

\* const finalSeverity = severity || determineSeverity(confidence)
FinalSeverity(hint, confidence) ==
    IF hint # "" THEN hint ELSE determineSeverity(confidence)

\* the catch block of the async handler
AsyncCatch(error) ==
    IF error.code = "ECONNREFUSED"
    THEN Failure(503, "ML Model server is not running")
    ELSE IF error.hasResponse
    THEN Failure(error.status, "ML model error")
    ELSE Failure(500, "Prediction failed")

\* an error thrown by the handler's own code: no code, no response
Thrown == [NoResult EXCEPT !.kind = "rejected"]

\* from the entry of the handler to the await of axios.post
AsyncReceive ==
    /\ ppc = "idle"
    /\ \E hasFile \in BOOLEAN, mlUrlSet \in BOOLEAN, sev \in SeverityHints :
          /\ preq' = [ version |-> "async", hasFile |-> hasFile,
                       mlUrlSet |-> mlUrlSet, severity |-> sev,
                       authenticated |-> TRUE ]
          /\ IF ~hasFile
             THEN Respond(Failure(400, "No image file uploaded"))
             ELSE IF ~mlUrlSet
             THEN Respond(MockResponse)
             ELSE /\ ppc' = "awaitML"
                  /\ UNCHANGED presp
    /\ UNCHANGED <<mlResult, pending, saved, labelVars, adviceVars, hostedVars,
                   promptVars>>

\* from the settling of axios.post to the await of prediction.save()
AsyncMLSettle ==
    /\ ppc = "awaitML"
    /\ preq.version = "async"
    /\ \E o \in BackendOutcomes :
          LET r          == Settle(o, DefaultValidateStatus(o.status))
              label      == ExtractLabel("async", r.data)
              confidence == ExtractConfidence("async", r.data)
              disease    == TrimLabel(label)
          IN  /\ mlResult' = r
              /\ IF r.kind = "rejected"
                 THEN Respond(AsyncCatch(r)) /\ UNCHANGED pending
                 ELSE IF ~Truthy(label) \/ label = NonString
                 THEN Respond(AsyncCatch(Thrown)) /\ UNCHANGED pending
                 ELSE IF BelowThreshold(confidence)
                 THEN /\ Respond(BelowThresholdResponse(disease, confidence))
                      /\ UNCHANGED pending
                 ELSE IF ~isValidDisease(disease)
                 THEN /\ Respond(InvalidClassResponse(disease, confidence))
                      /\ UNCHANGED pending
                 ELSE /\ pending' =
                            [ disease |-> disease, confidence |-> confidence,
                              severity |->
                                  FinalSeverity(preq.severity, confidence) ]
                      /\ ppc' = "saving"
                      /\ UNCHANGED presp
    /\ UNCHANGED <<preq, saved, labelVars, adviceVars, hostedVars,
                   promptVars>>

\* from the settling of prediction.save() to the end of the handler
AsyncSaveSettle ==
    /\ ppc = "saving"
    /\ preq.version = "async"
    /\ \E ok \in BOOLEAN :
          IF ok
          THEN /\ saved' = Append(saved, pending)
               /\ Respond(SuccessResponse(pending.disease, pending.confidence,
                                          pending.severity, Len(saved) + 1))
          ELSE /\ Respond(AsyncCatch(Thrown))
               /\ UNCHANGED saved
    /\ UNCHANGED <<preq, mlResult, pending, labelVars, adviceVars, hostedVars,
                   promptVars>>

----------------------------------------------------------------------------
(* routes/predict.js: router.post('/'), promise handler (lines 534-686)    *)

\* the .catch of the promise chain
PromiseCatch(mlError) ==
    IF mlError.code = "ECONNREFUSED"
    THEN Failure(503, "Cannot connect to ML model")
    ELSE IF mlError.code = "ETIMEDOUT"
    THEN Failure(504, "ML model timeout")
    ELSE Failure(500, "Request failed")

PromiseReceive ==
    /\ ppc = "idle"
    /\ \E hasFile \in BOOLEAN, mlUrlSet \in BOOLEAN, sev \in SeverityHints,
          authenticated \in BOOLEAN :
          /\ preq' = [ version |-> "promise", hasFile |-> hasFile,
                       mlUrlSet |-> mlUrlSet, severity |-> sev,
                       authenticated |-> authenticated ]
          /\ IF ~hasFile
             THEN Respond(Failure(400, "No image uploaded"))
             ELSE IF ~mlUrlSet
             THEN Respond(Failure(500, "ML Model not configured"))
             ELSE /\ ppc' = "awaitML"
                  /\ UNCHANGED presp
    /\ UNCHANGED <<mlResult, pending, saved, labelVars, adviceVars, hostedVars,
                   promptVars>>

\* the .then and the .catch of axios.post
PromiseMLSettle ==
    /\ ppc = "awaitML"
    /\ preq.version = "promise"
    /\ \E o \in BackendOutcomes :
          LET r          == Settle(o, validateStatus(o.status))
              label      == ExtractLabel("promise", r.data)
              confidence == ExtractConfidence("promise", r.data)
              disease    == TrimLabel(label)
          IN  /\ mlResult' = r
              /\ IF r.kind = "rejected"
                 THEN Respond(PromiseCatch(r))
                 ELSE IF r.status = 400
                 THEN Respond(Failure(400, "ML model rejected the image"))
                 ELSE IF r.status # 200
                 THEN Respond(Failure(r.status, "ML model error"))
                 ELSE IF ~Truthy(label)
                 THEN Respond(Failure(500, "No disease prediction in response"))
                 ELSE IF label = NonString
                 THEN Respond(PromiseCatch(Thrown))
                 ELSE IF BelowThreshold(confidence)
                 THEN Respond(BelowThresholdResponse(disease, confidence))
                 ELSE IF ~isValidDisease(disease)
                 THEN Respond(InvalidClassResponse(disease, confidence))
                 ELSE Respond(SuccessResponse(disease, confidence,
                                              determineSeverity(confidence), 0))
    /\ UNCHANGED <<preq, pending, saved, labelVars, adviceVars, hostedVars,
                   promptVars>>

----------------------------------------------------------------------------
(* unnamed/part_005: router.post('/'), promise handler that saves (lines   *)
(* 140-312); the same handler is in unnamed/part_003 (lines 135-285) and   *)
(* unnamed/part_004 (lines 558-723)                                        *)

\* the .catch of the promise chain
DetachedCatch(mlError) ==
    IF mlError.hasResponse
    THEN Failure(mlError.status, "ML model error")
    ELSE IF mlError.code = "ECONNREFUSED"
    THEN Failure(503, "Cannot connect to ML model")
    ELSE IF mlError.code = "ETIMEDOUT"
    THEN Failure(504, "ML model timeout")
    ELSE Failure(500, "Prediction failed")

\* no record saved: let predictionId = null
NO_ID == 0

DetachedReceive ==
    /\ ppc = "idle"
    /\ \E hasFile \in BOOLEAN, mlUrlSet \in BOOLEAN, sev \in SeverityHints,
          authenticated \in BOOLEAN :
          /\ preq' = [ version |-> "detached", hasFile |-> hasFile,
                       mlUrlSet |-> mlUrlSet, severity |-> sev,
                       authenticated |-> authenticated ]
          /\ IF ~hasFile
             THEN Respond(Failure(400, "No image uploaded"))
             ELSE IF ~mlUrlSet
             THEN Respond(Failure(500, "ML Model not configured"))
             ELSE /\ ppc' = "awaitML"
                  /\ UNCHANGED presp
    /\ UNCHANGED <<mlResult, pending, saved, labelVars, adviceVars, hostedVars,
                   promptVars>>

\* the .then and the .catch of axios.post: newPrediction.save() is called and
\* not waited for, res.json runs in the same turn with predictionId still null
DetachedMLSettle ==
    /\ ppc = "awaitML"
    /\ preq.version = "detached"
    /\ \E o \in BackendOutcomes :
          LET r          == Settle(o, DefaultValidateStatus(o.status))
              label      == ExtractLabel("detached", r.data)
              confidence == ExtractConfidence("detached", r.data)
              disease    == TrimLabel(label)
              severity   == determineSeverity(confidence)
          IN  /\ mlResult' = r
              /\ IF r.kind = "rejected"
                 THEN Respond(DetachedCatch(r)) /\ UNCHANGED pending
                 ELSE IF ~Truthy(label)
                 THEN /\ Respond(Failure(500, "Invalid ML response - no disease prediction"))
                      /\ UNCHANGED pending
                 ELSE IF label = NonString
                 THEN Respond(DetachedCatch(Thrown)) /\ UNCHANGED pending
                 ELSE IF BelowThreshold(confidence)
                 THEN /\ Respond(BelowThresholdResponse(disease, confidence))
                      /\ UNCHANGED pending
                 ELSE IF ~isValidDisease(disease)
                 THEN /\ Respond(InvalidClassResponse(disease, confidence))
                      /\ UNCHANGED pending
                 ELSE IF ~preq.authenticated
                 THEN /\ Respond(SuccessResponse(disease, confidence, severity,
                                                 NO_ID))
                      /\ UNCHANGED pending
                 ELSE /\ pending' = [ disease |-> disease,
                                      confidence |-> confidence,
                                      severity |-> severity ]
                      /\ presp' = SuccessResponse(disease, confidence,
                                                  severity, NO_ID)
                      /\ ppc' = "responded"
    /\ UNCHANGED <<preq, saved, labelVars, adviceVars, hostedVars,
                   promptVars>>

\* the .then and the .catch of newPrediction.save(): the assignment to
\* predictionId comes after the response was sent
DetachedSaveSettle ==
    /\ ppc = "responded"
    /\ \E ok \in BOOLEAN :
          saved' = IF ok THEN Append(saved, pending) ELSE saved
    /\ ppc' = "done"
    /\ UNCHANGED <<preq, mlResult, pending, presp, labelVars, adviceVars,
                   hostedVars, promptVars>>

PredictNext ==
    \/ AsyncReceive
    \/ AsyncMLSettle
    \/ AsyncSaveSettle
    \/ PromiseReceive
    \/ PromiseMLSettle
    \/ DetachedReceive
    \/ DetachedMLSettle
    \/ DetachedSaveSettle

----------------------------------------------------------------------------
(* routes/llm.js: configuration, health cache, environment                 *)

STALE_AFTER == 30000                  \* ms, the staleness test of the handlers

HEALTH_CHECK_TIMEOUT == 5000          \* ms, the axios timeout of GET /api/tags

MaxRequests == 2                      \* requests in one behaviour
MaxClock    == 45000                  \* ms, the clock stops here

TickSteps == {15000}

\* lastHealthCheck = null
Never == -1

\* what the Ollama daemon does with a request:
\*   "up"      GET /api/tags answers 200 and lists the configured model
\*   "nomodel" GET /api/tags answers 200 without the configured model
\*   "down"    any other status, connection refused, or a timeout
OllamaStates == {"up", "nomodel", "down"}

\* what the OpenAI API does with a chat completion: an answer with content,
\* an answer without content, status 401, or a network error or timeout
\* (status 429 and 500 differ from 401 in the message only)
OpenAIOutcomes == {"content", "nocontent", "401", "network"}

Configs == [USE_OPENAI : BOOLEAN, hasKey : BOOLEAN]

RequestIds == 1..MaxRequests

\* the startup call of checkOllamaHealth (line 72) has no request
StartupProbe == 0

\* req.body.disease of an advice request, req.body.message of a chat request
AdviceInputs == { Absent, <<>>, <<" ">>, <<"a","c","n","e">> }

\* if (!disease)                      adviceHandler, line 281
\* if (!message?.trim())              router.post('/chat'), line 402
\* the validation that lets every body through
HasInputAlways(kind, input) == TRUE

HasInput(kind, input) ==
    IF kind = "advice" THEN Truthy(input)
    ELSE input # Absent /\ Truthy(Trim(input))

\* response.data.response of POST /api/generate when Ollama answers 200
OllamaTexts == { Absent, NonString, <<>>, <<" ","\n">>, <<" ","o","k","\n">> }

OpenAIText == <<"a","i">>

NoAdviceResponse ==
    [ status |-> 0, success |-> FALSE, message |-> "", error |-> "",
      advice |-> <<>>, llm_service |-> "" ]

NoAdviceRequest ==
    [ kind |-> "none", pc |-> "none", input |-> Absent,
      hasPredictionId |-> FALSE,
      probed |-> FALSE, routed |-> FALSE, seenAge |-> Never,
      attempts |-> <<>>, fallbackUp |-> FALSE, advice |-> <<>>,
      resp |-> NoAdviceResponse ]

\* let ollamaAvailable = false; let lastHealthCheck = null: written by no probe
NoWriter == [flag |-> Never, stamp |-> Never]

AdviceInit ==
    /\ now = 0
    /\ ollamaAvailable = FALSE
    /\ lastHealthCheck = Never
    /\ cacheWriter = NoWriter
    /\ probes = {StartupProbe}
    /\ lastProbeAt = 0
    /\ areq = [r \in RequestIds |-> NoAdviceRequest]
    /\ ollamaUp \in OllamaStates
    /\ cfg \in Configs

\* !lastHealthCheck || (Date.now() - lastHealthCheck) > 30000
\* the staleness test without the null check
StaleForgetsNull == now - lastHealthCheck > STALE_AFTER

\* the staleness test with a window of no length
StaleWheneverAged == lastHealthCheck = Never \/ now - lastHealthCheck > 0

Stale == lastHealthCheck = Never \/ now - lastHealthCheck > STALE_AFTER

Age == IF lastHealthCheck = Never THEN Never ELSE now - lastHealthCheck

\* checkOllamaHealth, from the settling of axios.get to its return:
\* the value of ollamaAvailable and of lastHealthCheck it leaves
ProbedFlag(state) == state = "up"

ProbedStamp(state) ==
    IF state \in {"up", "nomodel"} THEN now ELSE lastHealthCheck

\* the probe whose run left each of the two: every run assigns ollamaAvailable,
\* only a run that got a 200 answer assigns lastHealthCheck
ProbedWriter(p, state) ==
    [flag  |-> p,
     stamp |-> IF state \in {"up", "nomodel"} THEN p ELSE cacheWriter.stamp]

AdviceDone(req, status, success, message, error, advice, service) ==
    [req EXCEPT !.pc = "done",
                !.resp = [ status |-> status, success |-> success,
                           message |-> message, error |-> error,
                           advice |-> advice, llm_service |-> service ]]

\* the catch block answering without the error message
AdviceCatchDropsError(req, error) ==
    AdviceDone(req, 500, FALSE, "Failed to generate advice", "", <<>>, "")

\* the catch block of adviceHandler
AdviceCatch(req, error) ==
    AdviceDone(req, 500, FALSE, "Failed to generate advice", error, <<>>, "")

Attempt(provider) == [provider |-> provider, ok |-> FALSE, error |-> ""]

\* generateAdviceWithLLM up to the await of the provider's axios.post
generateAdviceWithLLM(req, available) ==
    IF cfg.USE_OPENAI /\ cfg.hasKey
    THEN [req EXCEPT !.pc = "awaitOpenAI",
                     !.attempts = Append(@, Attempt("OpenAI"))]
    ELSE IF available
    THEN [req EXCEPT !.pc = "awaitOllama",
                     !.attempts = Append(@, Attempt("Ollama"))]
    ELSE AdviceCatch(req, "No LLM service available")

\* adviceHandler from the availability gate (line 296) to the next await;
\* available is the value of ollamaAvailable the handler reads
AdviceRoute(req, available) ==
    IF ~available /\ ~cfg.USE_OPENAI
    THEN AdviceDone(req, 503, FALSE, "LLM service not available", "", <<>>,
                    "")
    ELSE generateAdviceWithLLM(req, available)

\* router.post('/chat') from line 431 to the next await
ChatRoute(req, available) ==
    IF cfg.USE_OPENAI /\ cfg.hasKey
    THEN [req EXCEPT !.pc = "awaitOpenAI",
                     !.attempts = Append(@, Attempt("OpenAI"))]
    ELSE IF available
    THEN [req EXCEPT !.pc = "awaitOllama",
                     !.attempts = Append(@, Attempt("Ollama"))]
    ELSE AdviceDone(req, 500, FALSE, "Failed to process chat message",
                    "No LLM service available", <<>>, "")

\* the handler reads the cached flag and goes on
Route(req, available) ==
    LET read == [req EXCEPT !.routed = TRUE]
    IN  IF req.kind = "advice" THEN AdviceRoute(read, available)
        ELSE ChatRoute(read, available)

----------------------------------------------------------------------------
(* routes/llm.js: the handlers, one action per run between two awaits      *)

Arrives(r) ==
    /\ areq[r].pc = "none"
    /\ \A q \in RequestIds : q < r => areq[q].pc # "none"

\* adviceHandler (lines 276-317) and router.post('/chat') (lines 398-477)
\* from their entry to the first await
RequestReceive(r) ==
    /\ Arrives(r)
    /\ \E kind \in {"advice", "chat"}, input \in AdviceInputs,
          hasPredictionId \in BOOLEAN :
          LET req == [NoAdviceRequest EXCEPT
                          !.kind = kind, !.pc = "new", !.input = input,
                          !.hasPredictionId = hasPredictionId /\ kind = "advice",
                          !.seenAge = IF HasInput(kind, input) THEN Age
                                      ELSE Never]
          IN  IF ~HasInput(kind, input)
              THEN /\ areq' = [areq EXCEPT ![r] =
                          AdviceDone(req, 400, FALSE,
                              IF kind = "advice"
                              THEN "Disease information is required"
                              ELSE "Message is required", "", <<>>, "")]
                   /\ UNCHANGED <<probes, lastProbeAt>>
              ELSE IF Stale
              THEN /\ areq' = [areq EXCEPT ![r] =
                          [req EXCEPT !.pc = "probing", !.probed = TRUE]]
                   /\ probes' = probes \cup {r}
                   /\ lastProbeAt' = now
              ELSE /\ areq' = [areq EXCEPT ![r] =
                          Route(req, ollamaAvailable)]
                   /\ UNCHANGED <<probes, lastProbeAt>>
    /\ UNCHANGED <<now, ollamaAvailable, lastHealthCheck, cacheWriter, ollamaUp, cfg,
                   labelVars, predictVars, hostedVars,
                   promptVars>>

\* router.get('/health'): always calls checkOllamaHealth
HealthReceive(r) ==
    /\ Arrives(r)
    /\ areq' = [areq EXCEPT ![r] =
                   [NoAdviceRequest EXCEPT !.kind = "health", !.pc = "probing",
                                           !.probed = TRUE]]
    /\ probes' = probes \cup {r}
    /\ lastProbeAt' = now
    /\ UNCHANGED <<now, ollamaAvailable, lastHealthCheck, cacheWriter, ollamaUp, cfg,
                   labelVars, predictVars, hostedVars,
                   promptVars>>

\* checkOllamaHealth from the settling of axios.get to its return, and the
\* caller's run from its await of checkOllamaHealth to its next await
ProbeComplete(p) ==
    /\ p \in probes
    /\ probes' = probes \ {p}
    /\ ollamaAvailable' = ProbedFlag(ollamaUp)
    /\ lastHealthCheck' = ProbedStamp(ollamaUp)
    /\ cacheWriter' = ProbedWriter(p, ollamaUp)
    /\ IF p = StartupProbe
       THEN UNCHANGED areq
       ELSE IF areq[p].kind = "health"
       THEN areq' = [areq EXCEPT ![p] =
                AdviceDone(@, 200, TRUE,
                           IF ProbedFlag(ollamaUp) THEN "available"
                           ELSE "unavailable", "", <<>>, "")]
       ELSE areq' = [areq EXCEPT ![p] =
                Route(@, ProbedFlag(ollamaUp))]
    /\ UNCHANGED <<now, lastProbeAt, ollamaUp, cfg, labelVars, predictVars, hostedVars,
                   promptVars>>

\* the success response, or the await of Prediction.findByIdAndUpdate first
Generated(req, provider, text) ==
    LET done == [req EXCEPT !.advice = text,
                            !.attempts[Len(req.attempts)].ok = TRUE]
    IN  IF req.kind = "advice" /\ req.hasPredictionId
        THEN [done EXCEPT !.pc = "updating"]
        ELSE AdviceDone(done, 200, TRUE, "", "", text,
                        IF req.kind = "chat" THEN ""
                        ELSE IF cfg.USE_OPENAI THEN "OpenAI" ELSE "Ollama")

\* a catch block that calls the provider that failed once more
FailedRetries(req, error) ==
    LET failed == [req EXCEPT !.attempts[Len(req.attempts)].error = error,
                              !.fallbackUp = (ollamaAvailable /\ ollamaUp = "up")]
    IN  IF Len(req.attempts) < 2
        THEN [failed EXCEPT !.attempts =
                 Append(@, Attempt(req.attempts[Len(req.attempts)].provider))]
        ELSE IF req.kind = "advice"
        THEN AdviceCatch(failed, error)
        ELSE AdviceDone(failed, 500, FALSE, "Failed to process chat message",
                        error, <<>>, "")

\* the provider's call rejected: the catch block of the handler answers 500
Failed(req, error) ==
    LET failed == [req EXCEPT !.attempts[Len(req.attempts)].error = error,
                              !.fallbackUp = (ollamaAvailable /\ ollamaUp = "up")]
    IN  IF req.kind = "advice"
        THEN AdviceCatch(failed, error)
        ELSE AdviceDone(failed, 500, FALSE, "Failed to process chat message",
                        error, <<>>, "")

\* generateWithOpenAI from the settling of axios.post (lines 126-143), and
\* the handler's run up to its next await
OpenAISettle(r) ==
    /\ areq[r].pc = "awaitOpenAI"
    /\ \E o \in OpenAIOutcomes :
          areq' = [areq EXCEPT ![r] =
              IF o = "content"
              THEN Generated(@, "OpenAI", OpenAIText)
              ELSE IF o = "nocontent"
              THEN Failed(@, "OpenAI error: Invalid response from OpenAI")
              ELSE IF o = "401"
              THEN Failed(@, "Invalid OpenAI API key")
              ELSE Failed(@, "OpenAI error: network")]
    /\ UNCHANGED <<now, ollamaAvailable, lastHealthCheck, cacheWriter, probes,
                   lastProbeAt, ollamaUp, cfg, labelVars, predictVars, hostedVars,
                   promptVars>>

\* generateWithOllama from the settling of axios.post (lines 181-227):
\* validateStatus lets the 404 of a missing model through, its body has no
\* response property
generateWithOllama(req, text) ==
    IF ollamaUp = "down"
    THEN Failed(req, "Cannot connect to Ollama")
    ELSE IF ollamaUp = "nomodel" \/ ~Truthy(text)
    THEN Failed(req, "Ollama error: Empty response from Ollama")
    ELSE IF text = NonString
    THEN Failed(req, "Ollama error: trim is not a function")
    ELSE Generated(req, "Ollama", Trim(text))

\* router.post('/chat') from the settling of the POST to Ollama (lines
\* 456-473): the default validateStatus rejects the 404, the text is not
\* checked before the trim
chatWithOllama(req, text) ==
    IF ollamaUp = "down"
    THEN Failed(req, "connect ECONNREFUSED")
    ELSE IF ollamaUp = "nomodel"
    THEN Failed(req, "Request failed with status code 404")
    ELSE IF text \in {Absent, NonString}
    THEN Failed(req, "trim is not a function")
    ELSE Generated(req, "Ollama", Trim(text))

\* the settling of the POST to Ollama, and the handler's run up to its next
\* await
OllamaSettle(r) ==
    /\ areq[r].pc = "awaitOllama"
    /\ \E text \in OllamaTexts :
          areq' = [areq EXCEPT ![r] =
              IF areq[r].kind = "advice"
              THEN generateWithOllama(@, text)
              ELSE chatWithOllama(@, text)]
    /\ UNCHANGED <<now, ollamaAvailable, lastHealthCheck, cacheWriter, probes,
                   lastProbeAt, ollamaUp, cfg, labelVars, predictVars, hostedVars,
                   promptVars>>

\* adviceHandler from the settling of Prediction.findByIdAndUpdate: the
\* response is the same whether the update succeeded or threw
UpdateSettle(r) ==
    /\ areq[r].pc = "updating"
    /\ \E ok \in BOOLEAN :
          areq' = [areq EXCEPT ![r] =
              AdviceDone(@, 200, TRUE, "", "", @.advice,
                         IF cfg.USE_OPENAI THEN "OpenAI" ELSE "Ollama")]
    /\ UNCHANGED <<now, ollamaAvailable, lastHealthCheck, cacheWriter, probes,
                   lastProbeAt, ollamaUp, cfg, labelVars, predictVars, hostedVars,
                   promptVars>>

\* time passes
Tick ==
    /\ \E d \in TickSteps :
          /\ now + d <= MaxClock
          /\ probes # {} => d <= HEALTH_CHECK_TIMEOUT
          /\ now' = now + d
    /\ UNCHANGED <<ollamaAvailable, lastHealthCheck, cacheWriter, probes, areq,
                   lastProbeAt, ollamaUp, cfg, labelVars, predictVars, hostedVars,
                   promptVars>>

\* the Ollama daemon goes up or down
OllamaChanges ==
    /\ \E s \in OllamaStates \ {ollamaUp} : ollamaUp' = s
    /\ UNCHANGED <<now, ollamaAvailable, lastHealthCheck, cacheWriter, probes, areq,
                   lastProbeAt, cfg, labelVars, predictVars, hostedVars,
                   promptVars>>

AdviceNext ==
    \/ \E r \in RequestIds : RequestReceive(r)
    \/ \E r \in RequestIds : HealthReceive(r)
    \/ \E p \in {StartupProbe} \cup RequestIds : ProbeComplete(p)
    \/ \E r \in RequestIds : OpenAISettle(r)
    \/ \E r \in RequestIds : OllamaSettle(r)
    \/ \E r \in RequestIds : UpdateSettle(r)
    \/ Tick
    \/ OllamaChanges

----------------------------------------------------------------------------
(* server.js: POST /api/ask-llama (lines 28-47 and 100-116), and the       *)
(* TinyLlama variant of routes/llm.js (unnamed/part_000): POST /advice     *)

\* req.body.prompt of ask-llama, req.body.disease of the advice request
HostedBodies == { Absent, <<>>, <<"a","c","n","e">> }

\* req.body.predictionId: missing, not an ObjectId, an ObjectId
PredictionIds == {"absent", "invalid", "valid"}

\* the text properties of an answer of the hosted model
HostedTexts == { Absent, <<>>, <<" ">>, <<" ","o","k","\n">> }

\* response.data of a 200 answer: an object with response and generated_text
\* properties, or an array whose first element has a generated_text property
HostedPayloads ==
    { [ isArray |-> FALSE, response |-> r, generated_text |-> g,
        first |-> Absent ] : r \in HostedTexts, g \in HostedTexts }
    \cup { [ isArray |-> TRUE, response |-> Absent, generated_text |-> Absent,
             first |-> f ] : f \in HostedTexts }

NoHostedPayload ==
    [ isArray |-> FALSE, response |-> Absent, generated_text |-> Absent,
      first |-> Absent ]

\* what the hosted model does with the POST when it does answer
HostedOutcomes ==
    { [http |-> TRUE, status |-> 200, code |-> "", data |-> d] :
          d \in HostedPayloads }
    \cup { [http |-> TRUE, status |-> st, code |-> "", data |-> NoHostedPayload] :
              st \in {401, 503} }
    \cup { [http |-> FALSE, status |-> 0, code |-> "ECONNREFUSED",
             data |-> NoHostedPayload] }

\* axios rejects with code ECONNABORTED when the configured timeout elapses
TimedOut ==
    [http |-> FALSE, status |-> 0, code |-> "ECONNABORTED",
     data |-> NoHostedPayload]

NoHostedResult ==
    [ kind |-> "none", status |-> 0, code |-> "", hasResponse |-> FALSE,
      data |-> NoHostedPayload ]

\* the timeout option of axios.post in ms: queryTinyLlama passes none, and
\* without one axios waits without limit; callTinyLlama passes 300000
NO_TIMEOUT == 0

TINYLLAMA_TIMEOUT == 300000

\* timeout is that of the call to the hosted model the request has made
NoHostedRequest ==
    [ route |-> "none", body |-> Absent, configured |-> FALSE,
      predictionId |-> "absent", timeout |-> NO_TIMEOUT ]

\* success is "absent" for the answers of ask-llama, which carry no such
\* property
NoHostedResponse ==
    [ status |-> 0, success |-> "absent", message |-> "", error |-> "",
      advice |-> Absent, data |-> NoHostedPayload ]

HostedInit ==
    /\ hpc = "idle"
    /\ hreq = NoHostedRequest
    /\ hresult = NoHostedResult
    /\ hresp = NoHostedResponse

HostedRespond(r) ==
    /\ hresp' = r
    /\ hpc' = "done"

\* the catch block of ask-llama
LlamaCatch ==
    [NoHostedResponse EXCEPT !.status = 500,
                             !.error = "Failed to contact TinyLlama API"]

\* the catch block of the advice handler
HostedAdviceCatch(error) ==
    [NoHostedResponse EXCEPT !.status = 500, !.success = "false",
                             !.message = "Failed to generate advice",
                             !.error = error]

HostedAdviceSuccess(advice) ==
    [NoHostedResponse EXCEPT !.status = 200, !.success = "true",
                             !.advice = advice]

\* callTinyLlama without its third test, Array.isArray(response.data)
callTinyLlamaNoArray(data) ==
    IF Truthy(data.response) THEN Trim(data.response)
    ELSE IF Truthy(data.generated_text) THEN Trim(data.generated_text)
    ELSE Absent

\* callTinyLlama, lines 68-81: the text of the first shape that matches,
\* Absent when the function throws
callTinyLlama(data) ==
    IF Truthy(data.response) THEN Trim(data.response)
    ELSE IF Truthy(data.generated_text) THEN Trim(data.generated_text)
    ELSE IF data.isArray /\ Truthy(data.first) THEN Trim(data.first)
    ELSE Absent

\* ask-llama from its entry to the await of axios.post in queryTinyLlama;
\* configured is the presence of HF_TOKEN
LlamaReceive ==
    /\ hpc = "idle"
    /\ \E body \in HostedBodies, configured \in BOOLEAN :
          /\ hreq' = [NoHostedRequest EXCEPT !.route = "askLlama",
                                             !.body = body,
                                             !.configured = configured,
                                             !.timeout = NO_TIMEOUT]
          /\ IF ~Truthy(body)
             THEN HostedRespond([NoHostedResponse EXCEPT
                                     !.status = 400,
                                     !.error = "Prompt is required"])
             ELSE IF ~configured
             THEN HostedRespond(LlamaCatch)
             ELSE /\ hpc' = "awaitHF"
                  /\ UNCHANGED hresp
    /\ UNCHANGED <<hresult, labelVars, predictVars, adviceVars, promptVars>>

\* ask-llama from the settling of axios.post; the call has no timeout, so it
\* settles only when the model answers or the connection fails
LlamaSettle ==
    /\ hpc = "awaitHF"
    /\ \E o \in HostedOutcomes :
          LET r == Settle(o, DefaultValidateStatus(o.status))
          IN  /\ hresult' = r
              /\ IF r.kind = "rejected"
                 THEN HostedRespond(LlamaCatch)
                 ELSE HostedRespond([NoHostedResponse EXCEPT
                                         !.status = 200, !.data = r.data])
    /\ UNCHANGED <<hreq, labelVars, predictVars, adviceVars, promptVars>>

\* POST /advice of the TinyLlama variant from its entry to the await of
\* axios.post in callTinyLlama; configured is the presence of LLM_URL,
\* without which axios.post rejects at once
HostedAdviceReceive ==
    /\ hpc = "idle"
    /\ \E body \in HostedBodies, configured \in BOOLEAN,
          id \in PredictionIds :
          /\ hreq' = [ route |-> "advice", body |-> body,
                       configured |-> configured, predictionId |-> id,
                       timeout |-> IF Truthy(body) /\ configured
                                   THEN TINYLLAMA_TIMEOUT ELSE NO_TIMEOUT ]
          /\ IF ~Truthy(body)
             THEN HostedRespond([NoHostedResponse EXCEPT
                                     !.status = 400, !.success = "false",
                                     !.message = "Disease is required"])
             ELSE IF ~configured
             THEN HostedRespond(HostedAdviceCatch("Invalid URL"))
             ELSE /\ hpc' = "awaitLLM"
                  /\ UNCHANGED hresp
    /\ UNCHANGED <<hresult, labelVars, predictVars, adviceVars, promptVars>>

\* the advice handler once axios.post has settled with r
HostedAdviceContinue(r) ==
    /\ hresult' = r
    /\ IF r.kind = "rejected"
       THEN HostedRespond(HostedAdviceCatch(r.code))
       ELSE IF callTinyLlama(r.data) = Absent
       THEN HostedRespond(HostedAdviceCatch(
                              "Unrecognized TinyLlama response format"))
       ELSE IF hreq.predictionId = "valid"
       THEN /\ hpc' = "updating"
            /\ hresp' = [hresp EXCEPT !.advice = callTinyLlama(r.data)]
       ELSE HostedRespond(HostedAdviceSuccess(callTinyLlama(r.data)))
    /\ UNCHANGED <<hreq, labelVars, predictVars, adviceVars, promptVars>>

\* the hosted model answers the POST of callTinyLlama
HostedAdviceSettle ==
    /\ hpc = "awaitLLM"
    /\ \E o \in HostedOutcomes :
          HostedAdviceContinue(Settle(o, DefaultValidateStatus(o.status)))

\* the timeout of callTinyLlama (timeout: 300000) elapses first
HostedAdviceTimeout ==
    /\ hpc = "awaitLLM"
    /\ hreq.timeout > NO_TIMEOUT
    /\ HostedAdviceContinue(Settle(TimedOut, FALSE))

\* from the settling of Prediction.findByIdAndUpdate: the response is the
\* same whether the update succeeded or threw
HostedUpdateSettle ==
    /\ hpc = "updating"
    /\ \E ok \in BOOLEAN :
          HostedRespond(HostedAdviceSuccess(hresp.advice))
    /\ UNCHANGED <<hreq, hresult, labelVars, predictVars, adviceVars,
                   promptVars>>

HostedNext ==
    \/ LlamaReceive
    \/ LlamaSettle
    \/ HostedAdviceReceive
    \/ HostedAdviceSettle
    \/ HostedAdviceTimeout
    \/ HostedUpdateSettle

----------------------------------------------------------------------------
(* The prompt builders: createMedicalPrompt of routes/llm.js (lines        *)
(* 231-267) and buildPrompt of its TinyLlama variant (unnamed/part_001,    *)
(* lines 26-48).  A prompt is the sequence of its segments: the literal    *)
(* text of the template (lit), an interpolated string (val) or an          *)
(* interpolated percentage (num).                                          *)

Lit(text)   == [lit |-> text, val |-> <<>>, num |-> -1]
Val(string) == [lit |-> "", val |-> string, num |-> -1]
Pct(n)      == [lit |-> "%", val |-> <<>>, num |-> n]

urgentConditions ==
    << <<"m","e","l","a","n","o","m","a">>,
       <<"b","a","s","a","l"," ","c","e","l","l"," ","c","a","r","c",
        "i","n","o","m","a">>,
       <<"s","q","u","a","m","o","u","s"," ","c","e","l","l"," ","c",
        "a","r","c","i","n","o","m","a">>,
       <<"s","t","e","v","e","n","s","-","j","o","h","n","s","o","n",
        " ","s","y","n","d","r","o","m","e">>,
       <<"c","e","l","l","u","l","i","t","i","s">>,
       <<"s","e","p","s","i","s">> >>

URGENT_DIRECTIVE ==
    "URGENT CONDITION - START WITH IMMEDIATE MEDICAL ATTENTION WARNING"

\* urgentConditions.some(cond => disease.toLowerCase().includes(cond))
isUrgent(disease) ==
    \E k \in DOMAIN urgentConditions :
        Includes(ToLowerCase(disease), urgentConditions[k])

\* (confidence * 100).toFixed(0)
Percent(confidence) == (confidence + 50) \div 100

\* a || b for an optional string of the request body
OrElse(a, text) == IF Truthy(a) THEN Val(a) ELSE Lit(text)

createMedicalPrompt(disease, symptoms, severity, duration, confidence) ==
    << Lit("You are a dermatology medical assistant. Provide advice for:"),
       Val(disease),
       Lit("Condition:"), Val(disease),
       Lit("Confidence:"),
       IF confidence > 0 THEN Pct(Percent(confidence)) ELSE Lit("N/A"),
       Lit("Symptoms:"), OrElse(symptoms, "Not specified"),
       Lit("Severity:"), OrElse(severity, "moderate"),
       Lit("Duration:"), OrElse(duration, "Not specified"),
       Lit(IF isUrgent(disease) THEN URGENT_DIRECTIVE ELSE ""),
       Lit("Provide concise advice (400-500 words) covering:"),
       Lit("1. CONDITION OVERVIEW"), Lit("What is"), Val(disease),
       Lit("2. TREATMENT OPTIONS"),
       Lit("3. WHEN TO SEE A DOCTOR"),
       Lit(IF isUrgent(disease)
           THEN "Emphasize URGENT professional consultation needed"
           ELSE "Timeline for medical visit"),
       Lit("4. PREVENTION & CARE"),
       Lit("End with: This is AI-generated advice. Always consult a dermatologist for proper diagnosis."),
       Lit(IF isUrgent(disease)
           THEN "Emphasize URGENT medical attention needed"
           ELSE "Note AI screening is not a diagnosis") >>

\* the confidence is rendered without a check: NaN% when it is missing
buildPrompt(disease, symptoms, severity, duration, confidence) ==
    << Lit("You are a dermatology medical assistant."),
       Lit("Condition:"), Val(disease),
       Lit("Symptoms:"), OrElse(symptoms, "Not provided"),
       Lit("Severity:"), OrElse(severity, "Not provided"),
       Lit("Duration:"), OrElse(duration, "Not provided"),
       Lit("Confidence:"),
       IF confidence >= 0 THEN Pct(Percent(confidence)) ELSE Lit("NaN%"),
       Lit("Write a clear, safe explanation using:"),
       Lit("1. What the condition is"), Lit("2. Common symptoms"),
       Lit("3. Causes"), Lit("4. Safe home care"),
       Lit("5. Dermatologist treatments"), Lit("6. When to see a doctor"),
       Lit("7. Prevention tips"),
       Lit("End with: AI-generated advice. Consult a dermatologist.") >>

MaxCaseEdits == 2

\* the condition names the builders are given, before the change of case
ConditionNames ==
    { <<"m","e","l","a","n","o","m","a">>,
      <<"M","E","L","A","N","O","M","A">>,
      <<"m","a","l","i","g","n","a","n","t"," ","m","e","l","a","n",
        "o","m","a">>,
      <<"a","c","n","e">>,
      <<"A","c","n","e">>,
      <<"b","a","s","a","l","-","c","e","l","l"," ","c","a","r","c",
        "i","n","o","m","a">>,
      <<"s","e","p","s","i","s">>,
      <<"e","c","z","e","m","a">> }

OptionalTexts == { Absent, <<"i","t","c","h">> }

\* req.body.confidence: missing (-1), 0, 0.87
PromptConfidences == { -1, 0, 8700 }

NoPrompt == [ builder |-> "none", segments |-> <<>> ]

PromptInit ==
    /\ base \in ConditionNames
    /\ condition = base
    /\ caseEdits = 0
    /\ prompt = NoPrompt

\* one more character of the condition name in upper case
ConditionCase ==
    /\ prompt = NoPrompt
    /\ caseEdits < MaxCaseEdits
    /\ \E i \in DOMAIN condition :
          /\ condition[i] \in Range(LowerChars)
          /\ condition' = UppercaseAt(condition, i)
    /\ caseEdits' = caseEdits + 1
    /\ UNCHANGED <<base, prompt, labelVars, predictVars, adviceVars,
                   hostedVars>>

\* generateWithOpenAI and generateWithOllama build the prompt
CreateMedicalPromptCall ==
    /\ prompt = NoPrompt
    /\ \E symptoms \in OptionalTexts, severity \in OptionalTexts,
          duration \in OptionalTexts, confidence \in PromptConfidences :
          prompt' = [ builder |-> "createMedicalPrompt",
                      segments |-> createMedicalPrompt(condition, symptoms,
                                       severity, duration, confidence) ]
    /\ UNCHANGED <<condition, base, caseEdits, labelVars, predictVars,
                   adviceVars, hostedVars>>

\* generateAdvice of the TinyLlama variant builds the prompt
BuildPromptCall ==
    /\ prompt = NoPrompt
    /\ \E symptoms \in OptionalTexts, severity \in OptionalTexts,
          duration \in OptionalTexts, confidence \in PromptConfidences :
          prompt' = [ builder |-> "buildPrompt",
                      segments |-> buildPrompt(condition, symptoms,
                                       severity, duration, confidence) ]
    /\ UNCHANGED <<condition, base, caseEdits, labelVars, predictVars,
                   adviceVars, hostedVars>>

PromptNext ==
    \/ ConditionCase
    \/ CreateMedicalPromptCall
    \/ BuildPromptCall

----------------------------------------------------------------------------
(* Specifications                                                          *)

AdviceIdle ==
    /\ now = 0
    /\ ollamaAvailable = FALSE
    /\ lastHealthCheck = Never
    /\ cacheWriter = NoWriter
    /\ probes = {}
    /\ lastProbeAt = Never
    /\ areq = <<>>
    /\ ollamaUp = "down"
    /\ cfg = [USE_OPENAI |-> FALSE, hasKey |-> FALSE]

LabelIdle ==
    /\ origin = 1
    /\ variant = <<>>
    /\ edits = 0
    /\ verdict = "unchecked"

PromptIdle ==
    /\ base = <<>>
    /\ condition = <<>>
    /\ caseEdits = 0
    /\ prompt = NoPrompt

InitLabel ==
    LabelInit /\ PredictInit /\ AdviceIdle /\ HostedInit /\ PromptIdle

SpecLabel == InitLabel /\ [][LabelNext]_vars

InitPredict ==
    PredictInit /\ LabelIdle /\ AdviceIdle /\ HostedInit /\ PromptIdle

SpecPredict == InitPredict /\ [][PredictNext]_vars

InitAdvice ==
    AdviceInit /\ LabelIdle /\ PredictInit /\ HostedInit /\ PromptIdle

SpecAdvice == InitAdvice /\ [][AdviceNext]_vars

InitHosted ==
    HostedInit /\ LabelIdle /\ PredictInit /\ AdviceIdle /\ PromptIdle

\* the timeout configured for callTinyLlama fires when the model has not
\* answered, and the database settles the update it was sent; nothing makes
\* the hosted model answer
HostedFairness ==
    /\ WF_vars(HostedAdviceTimeout)
    /\ WF_vars(HostedUpdateSettle)

SpecHostedFair == InitHosted /\ [][HostedNext]_vars /\ HostedFairness

InitPrompt ==
    PromptInit /\ LabelIdle /\ PredictInit /\ AdviceIdle /\ HostedInit

SpecPrompt == InitPrompt /\ [][PromptNext]_vars

----------------------------------------------------------------------------
(* Properties of the classification pipeline (SpecPredict, SpecLabel)      *)

\* the handler has answered a 200 answer of the ML backend
HandledBackendAnswer ==
    /\ ppc = "done"
    /\ mlResult.kind = "resolved"
    /\ mlResult.status = 200

\* the label the backend reported (the first non-empty label property, in the
\* handler's order) and whether it is a string
ReportedLabel == ExtractLabel(preq.version, mlResult.data)

ReportedAString == Truthy(ReportedLabel) /\ ReportedLabel # NonString

\* the backend reported a number (as a JSON number or as a numeric string)
ReportedANumber == mlResult.data.confidence.t \in {"num", "str"}

ReportedConfidence == mlResult.data.confidence.v

\* trim, lower-case, strip non-alphanumeric
NormalForm(label) == StripNonAlnum(ToLowerCase(Trim(label)))

\* the normal form equals a normalized whitelist entry or contains one
OnWhitelist(label) ==
    \E k \in DOMAIN VALID_DISEASES :
        \/ NormalForm(label) = NormalForm(VALID_DISEASES[k])
        \/ Includes(NormalForm(label), NormalForm(VALID_DISEASES[k]))

\* >= 0.7 severe, >= 0.4 moderate, otherwise mild
Tier(c) ==
    IF ~c.nan /\ c.v >= 7000 THEN "severe"
    ELSE IF ~c.nan /\ c.v >= 4000 THEN "moderate"
    ELSE "mild"

\* C1: a result the handler returns as accepted (success:true) for a backend
\* answer has confidence >= 0.15 and a label that passes the whitelist check.
C1_AcceptedMeetsThresholdAndWhitelist ==
    (HandledBackendAnswer /\ presp.success) =>
        /\ ~presp.confidence.nan
        /\ presp.confidence.v >= 1500
        /\ OnWhitelist(presp.prediction)

\* C2: a reported confidence c > 1 is divided by 100 before the threshold
\* comparison, and the value compared and returned is always in [0,1].
C2_RescaledIntoUnitInterval ==
    (HandledBackendAnswer /\ ReportedANumber /\ presp.hasConfidence) =>
        /\ ReportedConfidence > 10000 =>
               presp.confidence = Num(ReportedConfidence \div 100)
        /\ ~presp.confidence.nan
        /\ presp.confidence.v >= 0
        /\ presp.confidence.v <= 10000

\* C3: a label reported with confidence < 0.15 is answered with the soft
\* rejection (status 200, success:false, belowThreshold:true, the confidence
\* and the reported label); confidence exactly 0.15 is not rejected as below
\* the threshold.
C3_BelowThresholdIsSoftRejection ==
    (HandledBackendAnswer /\ ReportedAString /\ ReportedANumber) =>
        /\ ReportedConfidence < 1500 =>
              /\ presp.status = 200
              /\ ~presp.success
              /\ presp.belowThreshold
              /\ ~presp.invalidClass
              /\ presp.hasConfidence
              /\ presp.confidence = Num(ReportedConfidence)
              /\ presp.predictedDisease = Trim(ReportedLabel)
        /\ ReportedConfidence = 1500 => ~presp.belowThreshold

C3_Witness ==
    /\ HandledBackendAnswer
    /\ ReportedAString /\ ReportedANumber
    /\ ReportedConfidence = 500
    /\ presp.belowThreshold
    /\ presp.predictedDisease = <<"e","c","z","e","m","a">>

\* the validator let the result through: the async handler built the
\* Prediction document, the promise handler answered success
PassedValidation == pending # NoDoc \/ presp.success

\* C4: a label whose confidence passed the threshold is accepted if and only
\* if its normal form equals a normalized whitelist entry or contains one;
\* otherwise the answer is the soft rejection (status 200, success:false,
\* invalidClass:true).
C4_AcceptedIffOnWhitelist ==
    ( /\ ppc \in {"saving", "done"}
      /\ mlResult.kind = "resolved" /\ mlResult.status = 200
      /\ ReportedAString
      /\ ~(ppc = "done" /\ presp.belowThreshold) ) =>
        /\ PassedValidation <=> OnWhitelist(ReportedLabel)
        /\ ~OnWhitelist(ReportedLabel) =>
              /\ presp.status = 200
              /\ ~presp.success
              /\ presp.invalidClass
              /\ presp.detectedClass = Trim(ReportedLabel)

C4_Witness ==
    /\ HandledBackendAnswer
    /\ presp.success
    /\ presp.prediction = <<"A","c","n","e"," ","V","u","l","g","a","r","i","s">>

\* C5: isValidDisease accepts every casing, punctuation and whitespace
\* variant of every whitelist entry.
C5_VariantsAccepted == verdict # "rejected"

C5_Witness ==
    /\ verdict = "accepted"
    /\ edits = MaxEdits
    /\ variant # VALID_DISEASES[origin]
    /\ \E i \in DOMAIN variant : variant[i] \in Range(UpperChars)
    /\ \E i \in DOMAIN variant : variant[i] \in InsertChars

C7_ReturnedLabelNormalized ==
    (HandledBackendAnswer /\ presp.success) =>
        presp.prediction = NormalForm(ReportedLabel)

\* C7 amended: the label returned to the caller is the backend's label with
\* leading and trailing whitespace removed, case and punctuation kept.
C7_ReturnedLabelTrimmed ==
    (HandledBackendAnswer /\ presp.success) =>
        presp.prediction = Trim(ReportedLabel)

C7_Witness ==
    /\ HandledBackendAnswer
    /\ presp.success
    /\ ReportedLabel = <<" ","M","e","l","a","n","o","m","a","\n">>
    /\ presp.prediction = <<"M","e","l","a","n","o","m","a">>

\* the handler handed a Prediction document to the database
SaveStarted == pending # NoDoc

\* C12: persisting the Prediction record is best-effort: once the save of an
\* accepted result has been started, the answer the caller receives is the
\* success answer, whether the save succeeds or fails.
C12_PersistenceNeverFailsResponse ==
    (ppc = "done" /\ SaveStarted) =>
        /\ presp.success
        /\ presp.status = 200
        /\ presp.prediction = pending.disease

\* a backend answer with a string label and a numeric confidence value
WellFormedPrediction ==
    /\ mlResult.kind = "resolved"
    /\ mlResult.status = 200
    /\ ReportedAString
    /\ ReportedANumber

\* Completed (success:true) or Rejected (status 200, success:false with one
\* of the two soft-rejection flags)
CompletedOrRejected ==
    /\ presp.status = 200
    /\ presp.success \/ presp.belowThreshold \/ presp.invalidClass

\* C13: once the backend has returned a well-formed prediction the request
\* ends Completed or Rejected, never Failed (an error status).
C13_WellFormedNeverFailed ==
    (ppc = "done" /\ WellFormedPrediction) => CompletedOrRejected

\* the same for the requests whose save did not fail
WellFormedNeverFailedUnlessSave ==
    (ppc = "done" /\ WellFormedPrediction /\ ~SaveStarted) =>
        CompletedOrRejected

C26_NoNumberNeverAccepted ==
    ( /\ HandledBackendAnswer
      /\ mlResult.data.confidence.t \in {"absent", "bad"} ) =>
        /\ ~presp.success
        /\ presp.belowThreshold \/ presp.status >= 400

\* C27: every answer with success:true carries the label and the confidence
\* of an answer the ML backend gave to this request: no accepted result is
\* returned without the backend having been called.
C27_AcceptedComesFromBackend ==
    (ppc \in {"responded", "done"} /\ presp.success) =>
        /\ mlResult.kind = "resolved"
        /\ ReportedAString
        /\ presp.prediction = Trim(ReportedLabel)
        /\ presp.confidence =
               ExtractConfidence(preq.version, mlResult.data)

\* C30: in the promise handlers that save, when a record was saved for an
\* authenticated user the predictionId of the success answer sent for the
\* request is the id of that record.
C30_ResponseCarriesSavedId ==
    ( /\ ppc = "done"
      /\ preq.version = "detached"
      /\ preq.authenticated
      /\ saved # <<>> ) =>
        /\ presp.success
        /\ presp.predictionId = Len(saved)

----------------------------------------------------------------------------
(* Properties of the advice pipeline (SpecAdvice)                          *)

\* an advice or chat request that passed input validation and was answered
Answered(r) ==
    /\ areq[r].kind \in {"advice", "chat"}
    /\ areq[r].pc = "done"
    /\ areq[r].seenAge # Never \/ areq[r].probed

\* C8: when the first eligible provider (OpenAI, enabled with credentials)
\* fails and the next provider (Ollama) is up, the request ends Completed
\* with the result of the second provider.
C8_FallsBackToNextProvider ==
    \A r \in RequestIds :
        ( /\ areq[r].kind = "advice" /\ areq[r].pc = "done"
          /\ Len(areq[r].attempts) >= 1
          /\ areq[r].attempts[1].provider = "OpenAI"
          /\ ~areq[r].attempts[1].ok
          /\ areq[r].fallbackUp ) =>
            /\ areq[r].resp.success
            /\ Len(areq[r].attempts) = 2
            /\ areq[r].attempts[2].provider = "Ollama"
            /\ areq[r].attempts[2].ok

\* the provider errors a failure response carries
ErrorsCarried(resp) ==
    IF resp.error \in {"", "No LLM service available"} THEN <<>>
    ELSE <<resp.error>>

AdviceSucceeded(r) ==
    /\ areq[r].kind = "advice"
    /\ areq[r].pc = "done"
    /\ areq[r].resp.success

\* C15: every advice response with success:true carries a non-empty advice
\* text, whatever payload the generation backend returned.
C15_SuccessCarriesAdviceText ==
    \A r \in RequestIds : AdviceSucceeded(r) => areq[r].resp.advice # <<>>

\* the provider whose call returned the text of the request
GeneratedBy(req) == req.attempts[Len(req.attempts)].provider

\* C16: in every successful advice response the provider tag of the metadata
\* names the backend that generated the returned text.
C16_ProviderTagNamesGenerator ==
    \A r \in RequestIds :
        AdviceSucceeded(r) => areq[r].resp.llm_service = GeneratedBy(areq[r])

\* an advice request whose condition is missing or empty
WithoutCondition(req) ==
    req.kind = "advice" /\ req.input \in {Absent, <<>>}

\* C17: an advice request without a condition is answered 400, success:false
\* before any health probe or provider invocation is made, and handling it
\* leaves the health cache as it was.
C17_MissingConditionFailsBeforeProbe ==
    /\ [](\A r \in RequestIds :
             WithoutCondition(areq[r]) =>
                 /\ areq[r].pc = "done"
                 /\ areq[r].resp.status = 400
                 /\ ~areq[r].resp.success
                 /\ ~areq[r].probed
                 /\ ~areq[r].routed
                 /\ areq[r].attempts = <<>>
                 /\ r \notin probes)
    /\ [][\A r \in RequestIds :
             (areq[r].pc = "none" /\ WithoutCondition(areq'[r])) =>
                 UNCHANGED <<ollamaAvailable, lastHealthCheck, probes,
                             lastProbeAt>>]_vars

C17_Witness ==
    \E r \in RequestIds :
        /\ WithoutCondition(areq[r])
        /\ areq[r].resp.status = 400
        /\ lastHealthCheck = Never
        /\ probes = {}

\* C18: a probe of Ollama that fails (any outcome but a 200 answer listing
\* the configured model) leaves the cache marked unavailable and refreshes
\* lastHealthCheck.
C18_FailedProbeIsCached ==
    [][\A p \in probes :
          (p \notin probes' /\ ollamaUp # "up") =>
              /\ ollamaAvailable' = FALSE
              /\ lastHealthCheck' = now]_vars

\* C19: when the recorded lastHealthCheck is less than 30 s old, an advice or
\* chat request that passed validation sends no probe and is routed on the
\* cached flag: with OpenAI not selected it calls Ollama exactly when the
\* cached flag is set.
C19_FreshRecordUsedWithoutProbe ==
    [][\A r \in RequestIds :
          ( /\ areq[r].pc = "none"
            /\ areq'[r].kind \in {"advice", "chat"}
            /\ HasInput(areq'[r].kind, areq'[r].input)
            /\ lastHealthCheck # Never
            /\ now - lastHealthCheck < 30000 ) =>
              /\ probes' = probes
              /\ lastProbeAt' = lastProbeAt
              /\ ~areq'[r].probed
              /\ areq'[r].routed
              /\ ~(cfg.USE_OPENAI /\ cfg.hasKey) =>
                     (areq'[r].pc = "awaitOllama" <=> ollamaAvailable)]_vars

C19_Witness ==
    \E r \in RequestIds :
        /\ areq[r].kind = "chat"
        /\ areq[r].routed
        /\ ~areq[r].probed
        /\ areq[r].seenAge = 15000
        /\ areq[r].pc = "awaitOllama"

\* C20: a network probe of Ollama is sent only when the previous one was sent
\* at least 30 s before: availability checks made within 30 s of each other
\* share one probe.
C20_OneProbePerWindow ==
    [][probes' \ probes # {} => now - lastProbeAt >= 30000]_vars

\* C21: in every reachable state the stored availability flag and the stored
\* timestamp were written by the same probe (or both are still the values the
\* module was loaded with).
C21_FlagAndStampFromSameProbe ==
    cacheWriter.flag = cacheWriter.stamp

\* the provider calls of a request that have not settled
InFlight(req) ==
    {i \in DOMAIN req.attempts :
        ~req.attempts[i].ok /\ req.attempts[i].error = ""}

\* C22: within one request at most one provider call is in flight at any
\* time, the handler waits for a provider only while that one call is in
\* flight, and no provider is called twice: a provider whose call failed is
\* not called again for that request.
C22_SequentialNoRetry ==
    \A r \in RequestIds :
        /\ Cardinality(InFlight(areq[r])) <= 1
        /\ InFlight(areq[r]) # {} <=>
               areq[r].pc \in {"awaitOpenAI", "awaitOllama"}
        /\ \A i, j \in DOMAIN areq[r].attempts :
               i # j => areq[r].attempts[i].provider #
                        areq[r].attempts[j].provider

C22_Witness ==
    \E r \in RequestIds :
        /\ areq[r].pc = "done"
        /\ areq[r].kind = "chat"
        /\ Len(areq[r].attempts) = 1
        /\ areq[r].attempts[1].provider = "Ollama"
        /\ areq[r].attempts[1].error = "Request failed with status code 404"
        /\ InFlight(areq[r]) = {}

\* the probes started so far: the one at module load and those of requests
StartedProbes == {StartupProbe} \cup {r \in RequestIds : areq[r].probed}

\* C28: a probe that completes after a probe started later than it has
\* completed leaves the cached availability flag as it is: the result of a
\* newer probe is never overwritten by an older one, so that once all probes
\* have completed the flag is the outcome of the probe started last
\* (requests are numbered in their order of arrival).
C28_LatestProbeWins ==
    [][\A p \in probes :
          ( /\ p \notin probes'
            /\ \E q \in StartedProbes : q > p /\ q \notin probes ) =>
              ollamaAvailable' = ollamaAvailable]_vars

\* C29: an advice request for which no provider is usable is answered 503
\* "LLM service not available" at the availability gate; a request that
\* passed validation and called no provider got that answer and no other,
\* so "No LLM service available" is never the error of an answer.
C29_NoProviderAnswered503AtGate ==
    \A r \in RequestIds :
        ( /\ areq[r].kind = "advice"
          /\ areq[r].pc = "done"
          /\ areq[r].routed
          /\ areq[r].attempts = <<>> ) =>
            /\ areq[r].resp.status = 503
            /\ areq[r].resp.message = "LLM service not available"
            /\ areq[r].resp.error # "No LLM service available"

----------------------------------------------------------------------------
(* Properties of the hosted handlers (SpecHosted, SpecHostedFair)          *)

\* a request that passed the handler's input checks and waits for the hosted
\* model or for the database
HostedWaiting == hpc \in {"awaitHF", "awaitLLM", "updating"}

\* C11: every request a handler has accepted eventually receives a response,
\* whatever the provider does (answer, fail, or never answer).
C11_EveryAcceptedRequestAnswered == [](HostedWaiting => <>(hpc = "done"))

\* the same for the advice handler alone, whose POST carries a timeout
AdviceRequestAnswered ==
    [](hpc \in {"awaitLLM", "updating"} => <>(hpc = "done"))

\* C23: every call to the hosted model is made with a finite timeout of its
\* own: while a handler waits for the model, the call it waits for has a
\* timeout set.
C23_EveryProviderCallHasTimeout ==
    hpc \in {"awaitHF", "awaitLLM"} => hreq.timeout > NO_TIMEOUT

\* the text properties of a payload that hold a non-empty string
Recognised(data) ==
    {t \in {data.response, data.generated_text, data.first} : Truthy(t)}

----------------------------------------------------------------------------
(* Properties of the prompt builders (SpecPrompt)                          *)

\* the prompt holds the urgent-attention directive
HasDirective(p) ==
    \E i \in DOMAIN p.segments : p.segments[i].lit = URGENT_DIRECTIVE

\* the name, compared case-insensitively, contains a high-risk entry
ContainsHighRisk(name) ==
    \E k \in DOMAIN urgentConditions :
        Includes(ToLowerCase(name), ToLowerCase(urgentConditions[k]))

\* C14: the prompt built for a condition holds the urgent-attention directive
\* if and only if the condition name, compared case-insensitively, contains
\* an entry of the high-risk list.
C14_UrgentDirectiveIffHighRisk ==
    prompt # NoPrompt =>
        (HasDirective(prompt) <=> ContainsHighRisk(condition))

\* the same for the prompts of createMedicalPrompt alone
DirectiveIffHighRiskInCreateMedicalPrompt ==
    prompt.builder = "createMedicalPrompt" =>
        (HasDirective(prompt) <=> ContainsHighRisk(condition))

====
